---- MODULE Spec2Model ----
(***************************************************************************)
(* Model of the AIBOM generator (src/src/aibomcra/generator.py, cli.py).   *)
(*                                                                         *)
(* JSON values are modelled as strings; a JSON object (Python dict) is a   *)
(* function whose DOMAIN is the set of keys it has, so that "key missing", *)
(* "key present with null" and "key present with the empty string" are     *)
(* three different things, as they are for dict.get.  A Python call        *)
(* either returns a value or raises; Return/Raise carry the outcome.       *)
(***************************************************************************)
EXTENDS Integers, Sequences, FiniteSets, TLC

VARIABLES
    pc,               \* "call" before the operation under study ran, "done" after
    primary,          \* _merge_components: argument primary
    imported,         \* _merge_components: argument imported
    prefer_imported,  \* _merge_components: argument prefer_imported
    merged,           \* _merge_components: outcome (Return or Raise)
    import_sbom,      \* import_cyclonedx_sbom: the files at the given paths
    import_out,       \* import_cyclonedx_sbom: outcome (Return or Raise)
    requirements,     \* parse_requirements: the file at path p, if any
    deps,             \* parse_requirements: outcome (Return or Raise)
    aibom,            \* validate_aibom: the JSON value given
    validation,       \* validate_aibom: outcome (Return or Raise)
    options,          \* cmd_generate: GenerateOptions, with the files at its paths
    out_file,         \* cmd_generate: the file at options.output
    exit              \* cmd_generate: outcome (Return or Raise)

mergeVars == <<primary, imported, prefer_imported, merged>>
importVars == <<import_sbom, import_out>>
requirementsVars == <<requirements, deps>>
validateVars == <<aibom, validation>>
generateVars == <<options, out_file, exit>>
vars == <<pc, mergeVars, importVars, requirementsVars, validateVars, generateVars>>

----------------------------------------------------------------------------
(* Python values and outcomes *)

\* Python's None / JSON null.
None == "<None>"

Return(v) == [exc |-> "", value |-> v]
Raise(e) == [exc |-> e, value |-> <<>>]

\* The result of a call that has not been made yet.
NotCalled == [exc |-> "<not-called>", value |-> <<>>]

\* d.get(k, default)
Get(d, k, default) == IF k \in DOMAIN d THEN d[k] ELSE default

\* {**a, **b}
DictUpdate(a, b) ==
    [k \in (DOMAIN a) \cup (DOMAIN b) |-> IF k \in DOMAIN b THEN b[k] ELSE a[k]]

\* Code points of the strings of the model (Python orders str by code point).
CodePoints(s) ==
    CASE s = "" -> <<>>
      [] s = "1" -> <<49>>
      [] s = "2" -> <<50>>
      [] s = "8" -> <<56>>
      [] s = "a" -> <<97>>
      [] s = "b" -> <<98>>
      [] s = "p" -> <<112>>
      [] s = "os" -> <<111, 115>>
      [] s = "ubuntu" -> <<117, 98, 117, 110, 116, 117>>
      [] s = "numpy" -> <<110, 117, 109, 112, 121>>
      [] s = "torch" -> <<116, 111, 114, 99, 104>>
      [] s = "python" -> <<112, 121, 116, 104, 111, 110>>
      [] s = "library" -> <<108, 105, 98, 114, 97, 114, 121>>
      [] s = "ai-model" -> <<97, 105, 45, 109, 111, 100, 101, 108>>
      [] s = "org/model" -> <<111, 114, 103, 47, 109, 111, 100, 101, 108>>
      [] s = "<unknown-model>" ->
            <<60, 117, 110, 107, 110, 111, 119, 110, 45, 109, 111, 100, 101, 108, 62>>

RECURSIVE SeqLess(_, _)
\* Lexicographic order of two sequences of code points.
SeqLess(a, b) ==
    IF b = <<>> THEN FALSE
    ELSE IF a = <<>> THEN TRUE
    ELSE IF Head(a) # Head(b) THEN Head(a) < Head(b)
    ELSE SeqLess(Tail(a), Tail(b))

\* str < str
StrLess(a, b) == SeqLess(CodePoints(a), CodePoints(b))

\* a < b raises TypeError when exactly one of the two is None (None < None
\* is never evaluated: tuple comparison skips equal elements).
Comparable(a, b) == (a = None) <=> (b = None)

----------------------------------------------------------------------------
(* _merge_components *)

\* A merge key that, like the import key, includes the version.
MergeKeyWithVersion(c) ==
    <<Get(c, "name", ""), Get(c, "version", ""), Get(c, "type", "")>>

\* key = (c.get("name", ""), c.get("type", ""))
MergeKey(c) == <<Get(c, "name", ""), Get(c, "type", "")>>

\* by_key is a dict: a sequence of [key, val] in insertion order, keys unique.
HasKey(by_key, key) == \E i \in 1..Len(by_key) : by_key[i].key = key

Lookup(by_key, key) ==
    by_key[CHOOSE i \in 1..Len(by_key) : by_key[i].key = key].val

\* by_key[key] = val : an existing key keeps its slot, a new key is appended.
DictPut(by_key, key, val) ==
    IF HasKey(by_key, key)
    THEN [i \in 1..Len(by_key) |->
            IF by_key[i].key = key THEN [key |-> key, val |-> val] ELSE by_key[i]]
    ELSE Append(by_key, [key |-> key, val |-> val])

RECURSIVE IndexPrimary(_, _)
\* for c in primary: by_key[key] = c
IndexPrimary(by_key, cs) ==
    IF cs = <<>> THEN by_key
    ELSE IndexPrimary(DictPut(by_key, MergeKey(Head(cs)), Head(cs)), Tail(cs))

\* A filter that drops null values only.
NonEmptyItemsNullOnly(c) ==
    [k \in {f \in DOMAIN c : c[f] # None} |-> c[k]]

\* {k: v for k, v in c.items() if v not in (None, "")}
NonEmptyItems(c) ==
    [k \in {f \in DOMAIN c : c[f] \notin {None, ""}} |-> c[k]]

\* A loop body that updates the existing record whatever the flag.
MergeOneIgnoringFlag(by_key, c, prefer) ==
    LET key == MergeKey(c) IN
    IF HasKey(by_key, key)
    THEN DictPut(by_key, key, DictUpdate(Lookup(by_key, key), NonEmptyItems(c)))
    ELSE DictPut(by_key, key, c)

\* The body of the loop over imported.
MergeOne(by_key, c, prefer) ==
    LET key == MergeKey(c) IN
    IF HasKey(by_key, key)
    THEN IF prefer
         THEN DictPut(by_key, key, DictUpdate(Lookup(by_key, key), NonEmptyItems(c)))
         ELSE by_key
    ELSE DictPut(by_key, key, c)

RECURSIVE MergeImported(_, _, _)
\* for c in imported: ...
MergeImported(by_key, cs, prefer) ==
    IF cs = <<>> THEN by_key
    ELSE MergeImported(MergeOne(by_key, Head(cs), prefer), Tail(cs), prefer)

\* A sort key with name before type.
SortKeyNameType(x) == <<Get(x, "name", ""), Get(x, "type", "")>>

\* key=lambda x: (x.get("type", ""), x.get("name", ""))
SortKey(x) == <<Get(x, "type", ""), Get(x, "name", "")>>

\* Tuple comparison k1 < k2 of two sort keys whose elements are comparable.
SortKeyLess(k1, k2) ==
    IF k1[1] # k2[1] THEN StrLess(k1[1], k2[1])
    ELSE IF k1[2] # k2[2] THEN StrLess(k1[2], k2[2])
    ELSE FALSE

\* Tuple comparison raises TypeError at the first differing element when
\* that pair is a None and a str.
SortKeyComparable(k1, k2) ==
    IF k1[1] # k2[1] THEN Comparable(k1[1], k2[1])
    ELSE IF k1[2] # k2[2] THEN Comparable(k1[2], k2[2])
    ELSE TRUE

RECURSIVE InsertSorted(_, _)
\* Stable insertion: x goes before the first element whose key is greater.
InsertSorted(s, x) ==
    IF s = <<>> THEN <<x>>
    ELSE IF SortKeyLess(SortKey(x), SortKey(Head(s))) THEN <<x>> \o s
    ELSE <<Head(s)>> \o InsertSorted(Tail(s), x)

RECURSIVE StableSort(_, _)
StableSort(acc, s) ==
    IF s = <<>> THEN acc ELSE StableSort(InsertSorted(acc, Head(s)), Tail(s))

\* sorted(values, key=...): a comparison sort of values with pairwise
\* distinct keys has to tell every two of them apart, so it raises exactly
\* when some two keys cannot be compared.
SortedByTypeName(values) ==
    IF \E i, j \in 1..Len(values) :
          ~SortKeyComparable(SortKey(values[i]), SortKey(values[j]))
    THEN Raise("TypeError")
    ELSE Return(StableSort(<<>>, values))

Values(by_key) == [i \in 1..Len(by_key) |-> by_key[i].val]

\* A merge that returns the indexed primary records and no imported one.
MergePrimaryOnly(prim, imp, prefer) ==
    SortedByTypeName(Values(IndexPrimary(<<>>, prim)))

merge_components(prim, imp, prefer) ==
    SortedByTypeName(
        Values(MergeImported(IndexPrimary(<<>>, prim), imp, prefer)))

----------------------------------------------------------------------------
(* Inputs of _merge_components *)

MaxPrimary == 2
MaxImported == 2

SeqsUpTo(S, n) == UNION {[1..k -> S] : k \in 0..n}

\* Component records: with and without version and purl, with an empty, a
\* null and a missing name, with an empty and a missing type.
ComponentPool ==
    { [name |-> "numpy", type |-> "library", version |-> "1"],
      [name |-> "numpy", type |-> "library", version |-> "2", purl |-> "p"],
      [name |-> "numpy", type |-> "library", version |-> "", purl |-> None],
      [name |-> "torch", type |-> ""],
      [type |-> "", version |-> "1"],
      [name |-> "", version |-> "2"],
      [name |-> None, type |-> "library", version |-> "1"] }

MergeIdle ==
    /\ primary = <<>>
    /\ imported = <<>>
    /\ prefer_imported = FALSE
    /\ merged = NotCalled

ImportIdle ==
    /\ import_sbom = <<>>
    /\ import_out = NotCalled

\* No path given (p is None).
NoPath == [given |-> FALSE]

RequirementsIdle ==
    /\ requirements = NoPath
    /\ deps = NotCalled

\* JSON null.
JsonNull == [kind |-> "null"]

ValidateIdle ==
    /\ aibom = JsonNull
    /\ validation = NotCalled

\* No file at the path.
MissingFile == [exists |-> FALSE]

GenerateIdle ==
    /\ options = [model_id |-> ""]
    /\ out_file = MissingFile
    /\ exit = NotCalled

InitMerge ==
    /\ pc = "call"
    /\ ImportIdle
    /\ RequirementsIdle
    /\ ValidateIdle
    /\ GenerateIdle
    /\ primary \in SeqsUpTo(ComponentPool, MaxPrimary)
    /\ imported \in SeqsUpTo(ComponentPool, MaxImported)
    /\ prefer_imported \in BOOLEAN
    /\ merged = NotCalled

MergeComponents ==
    /\ pc = "call"
    /\ merged' = merge_components(primary, imported, prefer_imported)
    /\ pc' = "done"
    /\ UNCHANGED <<primary, imported, prefer_imported, importVars, requirementsVars,
                   validateVars, generateVars>>

NextMerge == MergeComponents

SpecMerge == InitMerge /\ [][NextMerge]_vars

----------------------------------------------------------------------------
(* Properties of _merge_components *)

\* The identity key of a component: its name and type, a missing field
\* counting as the empty string.
NameOf(c) == IF "name" \in DOMAIN c THEN c["name"] ELSE ""
TypeOf(c) == IF "type" \in DOMAIN c THEN c["type"] ELSE ""
SameIdentity(a, b) == NameOf(a) = NameOf(b) /\ TypeOf(a) = TypeOf(b)

MergeReturned == pc = "done" /\ merged.exc = ""

\* C1: the list returned by _merge_components holds no two records with the
\* same (name, type) pair.
C1_UniqueIdentity ==
    MergeReturned =>
        \A i, j \in 1..Len(merged.value) :
            SameIdentity(merged.value[i], merged.value[j]) => i = j

\* C1 witness: a primary and an imported record shared their identity and
\* the merge returned several records.
C1_Witness ==
    /\ MergeReturned
    /\ Len(merged.value) >= 2
    /\ \E i \in 1..Len(primary), j \in 1..Len(imported) :
          SameIdentity(primary[i], imported[j]) /\ primary[i] # imported[j]

\* The last record of list cs with the identity of c.
LastWithIdentity(cs, c) ==
    cs[CHOOSE i \in 1..Len(cs) :
          /\ SameIdentity(cs[i], c)
          /\ \A j \in (i + 1)..Len(cs) : ~SameIdentity(cs[j], c)]

\* C4: with prefer_imported = false, the output record of every identity
\* that occurs in primary is the last primary record with that identity,
\* unchanged, and no other output record has that identity.
C4_PrimaryKept ==
    (MergeReturned /\ ~prefer_imported) =>
        /\ \A i \in 1..Len(primary) :
              \E k \in 1..Len(merged.value) :
                  merged.value[k] = LastWithIdentity(primary, primary[i])
        /\ \A k \in 1..Len(merged.value) :
              (\E i \in 1..Len(primary) : SameIdentity(primary[i], merged.value[k]))
                  => merged.value[k] = LastWithIdentity(primary, merged.value[k])

\* C4 witness: two different primary records and a different imported
\* record share one identity, and the merge returned.
C4_Witness ==
    /\ MergeReturned
    /\ ~prefer_imported
    /\ \E i, j \in 1..Len(primary), k \in 1..Len(imported) :
          /\ i < j
          /\ SameIdentity(primary[i], primary[j])
          /\ SameIdentity(primary[j], imported[k])
          /\ primary[i] # primary[j]
          /\ imported[k] # primary[j]

\* The imported record supplies field f with a value that is neither null
\* nor the empty string.
Supplies(c, f) == f \in DOMAIN c /\ c[f] # None /\ c[f] # ""

\* The existing record updated field by field from the imported one: a
\* field the imported record supplies takes the imported value, every other
\* field of the existing record stays, and no other field appears.
FieldUpdate(existing, imp) ==
    [f \in (DOMAIN existing) \cup {g \in DOMAIN imp : Supplies(imp, g)} |->
        IF Supplies(imp, f) THEN imp[f] ELSE existing[f]]

\* The records of cs with the identity of c, in order.
WithIdentity(cs, c) == SelectSeq(cs, LAMBDA x : SameIdentity(x, c))

\* The record an identity has before the imported records are merged in:
\* the last primary one, else the first imported one.
ExistingBeforeImports(c) ==
    IF \E i \in 1..Len(primary) : SameIdentity(primary[i], c)
    THEN LastWithIdentity(primary, c)
    ELSE Head(WithIdentity(imported, c))

\* The imported records that meet an existing record of their identity.
ImportsMeetingExisting(c) ==
    IF \E i \in 1..Len(primary) : SameIdentity(primary[i], c)
    THEN WithIdentity(imported, c)
    ELSE Tail(WithIdentity(imported, c))

RECURSIVE UpdatedInTurn(_, _)
\* The existing record updated by the records of imps, one after the other.
UpdatedInTurn(existing, imps) ==
    IF imps = <<>> THEN existing
    ELSE UpdatedInTurn(FieldUpdate(existing, Head(imps)), Tail(imps))

\* C5: with prefer_imported = true, every output record is its identity's
\* existing record updated, by each imported record of that identity in
\* turn, with exactly the fields that record supplies non-null and non-empty.
C5_PreferImportedFieldUpdate ==
    (MergeReturned /\ prefer_imported) =>
        \A k \in 1..Len(merged.value) :
            merged.value[k] =
                UpdatedInTurn(ExistingBeforeImports(merged.value[k]),
                              ImportsMeetingExisting(merged.value[k]))

\* C5 witness: an empty primary version was replaced by an imported one, or
\* a primary field met an empty or null imported one.
C5_Witness ==
    /\ MergeReturned
    /\ prefer_imported
    /\ \E i \in 1..Len(primary), j \in 1..Len(imported), k \in 1..Len(merged.value) :
          /\ SameIdentity(primary[i], imported[j])
          /\ SameIdentity(primary[i], merged.value[k])
          /\ "version" \in DOMAIN primary[i]
          /\ "version" \in DOMAIN imported[j]
          /\ primary[i]["version"] = "1"
          /\ imported[j]["version"] = ""
          /\ merged.value[k]["version"] = "1"
          /\ "purl" \notin DOMAIN primary[i]
          /\ "purl" \in DOMAIN imported[j]

\* (type, name) of a is at most (type, name) of b.
TypeNameLeq(a, b) ==
    IF TypeOf(a) # TypeOf(b)
    THEN Comparable(TypeOf(a), TypeOf(b)) /\ StrLess(TypeOf(a), TypeOf(b))
    ELSE \/ NameOf(a) = NameOf(b)
         \/ Comparable(NameOf(a), NameOf(b)) /\ StrLess(NameOf(a), NameOf(b))

\* C6: the list returned by _merge_components is sorted ascending by
\* (type, name).
C6_SortedByTypeName ==
    MergeReturned =>
        \A i \in 1..(Len(merged.value) - 1) :
            TypeNameLeq(merged.value[i], merged.value[i + 1])

\* C6 witness: the merge returned at least two records in an order that is
\* not the order they were given in.
C6_Witness ==
    /\ MergeReturned
    /\ Len(merged.value) >= 2
    /\ Len(primary) >= 2
    /\ imported = <<>>
    /\ merged.value # primary
    /\ TypeOf(merged.value[1]) # TypeOf(merged.value[2])

----------------------------------------------------------------------------
(* import_cyclonedx_sbom *)

\* a or b, for values that are None or str.
Or(a, b) == IF a \in {None, ""} THEN b ELSE a

\* A file at a path: it may not exist, and the JSON value it holds is an
\* object (a dict) or something else.
ObjectFile(obj) == [exists |-> TRUE, kind |-> "object", obj |-> obj]
ArrayFile == [exists |-> TRUE, kind |-> "array"]

\* One entry of components in _load_one.
NormaliseComponent(c) ==
    [name |-> Get(c, "name", None),
     version |-> Get(c, "version", ""),
     bom_ref |-> Or(Get(c, "bom-ref", None), Get(c, "bom_ref", None)),
     purl |-> Get(c, "purl", None),
     type |-> Get(c, "type", "library"),
     source |-> "cyclonedx"]

\* ref = aff.get("ref") or aff.get("bom-ref")
AffectRef(aff) == Or(Get(aff, "ref", None), Get(aff, "bom-ref", None))

RECURSIVE AffectsOf(_)
\* for aff in affects: if ref: affects.append(ref)
AffectsOf(affs) ==
    IF affs = <<>> THEN <<>>
    ELSE IF AffectRef(Head(affs)) \in {None, ""} THEN AffectsOf(Tail(affs))
    ELSE <<AffectRef(Head(affs))>> \o AffectsOf(Tail(affs))

\* The value of a JSON number.
NumValue(s) ==
    CASE s = "0" -> 0
      [] s = "2" -> 2
      [] s = "8" -> 8
      [] s = "-1" -> -1

\* A sort key under which a rating without a score ranks below every score.
ScoreKeyMissingLowest(r) == Get(r, "score", "-1")

\* key=lambda r: r.get("score", 0)
ScoreKey(r) == Get(r, "score", "0")

RECURSIVE InsertDescending(_, _)
\* Stable insertion for reverse=True: r goes before the first rating whose
\* score is smaller.
InsertDescending(s, r) ==
    IF s = <<>> THEN <<r>>
    ELSE IF NumValue(ScoreKey(Head(s))) < NumValue(ScoreKey(r)) THEN <<r>> \o s
    ELSE <<Head(s)>> \o InsertDescending(Tail(s), r)

RECURSIVE SortDescending(_, _)
SortDescending(acc, s) ==
    IF s = <<>> THEN acc
    ELSE SortDescending(InsertDescending(acc, Head(s)), Tail(s))

\* sev = sorted(ratings, key=..., reverse=True)[0] if ratings else None; a
\* sort of two or more ratings compares every key with another and raises
\* when one is None.
HighestRating(ratings) ==
    IF ratings = <<>> THEN Return(<<>>)
    ELSE IF Len(ratings) >= 2 /\ \E i \in 1..Len(ratings) : ScoreKey(ratings[i]) = None
    THEN Raise("TypeError")
    ELSE Return(Head(SortDescending(<<>>, ratings)))

\* One entry of vulns in _load_one, given the selected rating sev.
NormaliseVulnerability(v, sev) ==
    [id |-> Or(Or(Get(v, "id", None), Get(v, "bom-ref", None)), Get(v, "name", None)),
     source |-> Get(Get(v, "source", <<>>), "name", "trivy"),
     severity |-> Get(sev, "severity", None),
     score |-> Get(sev, "score", None),
     affects |-> AffectsOf(Get(v, "affects", <<>>))]

RECURSIVE LoadVulnerabilities(_)
\* for v in vulns_in: ...
LoadVulnerabilities(vs) ==
    IF vs = <<>> THEN Return(<<>>)
    ELSE LET sev == HighestRating(Get(Head(vs), "ratings", <<>>))
             rest == LoadVulnerabilities(Tail(vs))
         IN IF sev.exc # "" THEN sev
            ELSE IF rest.exc # "" THEN rest
            ELSE Return(<<NormaliseVulnerability(Head(vs), sev.value)>> \o rest.value)

LoadComponents(cs) == [i \in 1..Len(cs) |-> NormaliseComponent(cs[i])]

\* _load_one(p)
load_one(p) ==
    IF ~p.exists THEN Raise("FileNotFoundError")
    ELSE IF p.kind # "object" THEN Raise("AttributeError")
    ELSE LET vulns == LoadVulnerabilities(Get(p.obj, "vulnerabilities", <<>>)) IN
         IF vulns.exc # "" THEN vulns
         ELSE Return([components |-> LoadComponents(Get(p.obj, "components", <<>>)),
                      vulns |-> vulns.value])

\* A component key made of name and type only.
ImportKeyNameType(c) == <<c["name"], c["type"]>>

\* key = (c.get("name"), c.get("version"), c.get("type"))
ImportKey(c) == <<c["name"], c["version"], c["type"]>>

RECURSIVE AddComponents(_, _)
\* for c in comps: if key not in seen_comp_keys: ... all_components.append(c)
AddComponents(acc, cs) ==
    IF cs = <<>> THEN acc
    ELSE LET c == Head(cs)
             key == ImportKey(c)
         IN IF key \in acc.seen_comp_keys
            THEN AddComponents(acc, Tail(cs))
            ELSE AddComponents([acc EXCEPT !.seen_comp_keys = @ \cup {key},
                                           !.all_components = Append(@, c)],
                               Tail(cs))

RECURSIVE LoadAll(_, _)
\* for p in paths: comps, vulns = _load_one(p); ...
LoadAll(acc, paths) ==
    IF paths = <<>> THEN Return(acc)
    ELSE LET one == load_one(Head(paths)) IN
         IF one.exc # "" THEN one
         ELSE LoadAll([AddComponents(acc, one.value.components)
                          EXCEPT !.all_vulns = @ \o one.value.vulns],
                      Tail(paths))

RECURSIVE InsertString(_, _)
InsertString(s, x) ==
    IF s = <<>> THEN <<x>>
    ELSE IF StrLess(x, Head(s)) THEN <<x>> \o s
    ELSE <<Head(s)>> \o InsertString(Tail(s), x)

RECURSIVE SortedStrings(_, _)
\* sorted(affects)
SortedStrings(acc, s) ==
    IF s = <<>> THEN acc ELSE SortedStrings(InsertString(acc, Head(s)), Tail(s))

\* key = (v.get("id"), tuple(sorted(v.get("affects") or [])))
VulnKey(v) == <<v["id"], SortedStrings(<<>>, v["affects"])>>

RECURSIVE DedupVulnerabilities(_, _)
\* for v in all_vulns: if key not in dedup: dedup[key] = v
DedupVulnerabilities(dedup, vs) ==
    IF vs = <<>> THEN dedup
    ELSE IF HasKey(dedup, VulnKey(Head(vs)))
         THEN DedupVulnerabilities(dedup, Tail(vs))
         ELSE DedupVulnerabilities(DictPut(dedup, VulnKey(Head(vs)), Head(vs)), Tail(vs))

\* paths = <<>> stands for both None and the empty list.
import_cyclonedx_sbom(paths) ==
    IF paths = <<>> THEN Return([components |-> <<>>, vulnerabilities |-> <<>>])
    ELSE LET all == LoadAll([all_components |-> <<>>, all_vulns |-> <<>>,
                             seen_comp_keys |-> {}], paths)
         IN IF all.exc # "" THEN all
            ELSE Return([components |-> all.value.all_components,
                         vulnerabilities |->
                             Values(DedupVulnerabilities(<<>>, all.value.all_vulns))])

----------------------------------------------------------------------------
(* Inputs of import_cyclonedx_sbom *)

MaxSboms == 2

RawComponentPool ==
    { ("name" :> "numpy") @@ ("version" :> "1") @@ ("type" :> "library")
          @@ ("bom-ref" :> "a"),
      ("name" :> "numpy") @@ ("version" :> "1") @@ ("type" :> "library"),
      ("name" :> "numpy") @@ ("version" :> "2") @@ ("type" :> "library")
          @@ ("purl" :> "p"),
      ("name" :> "numpy") @@ ("bom-ref" :> "") @@ ("bom_ref" :> "b"),
      ("type" :> "library") @@ ("version" :> "1") }

RawVulnerabilityPool ==
    { ("id" :> "CVE-1") @@ ("affects" :> <<("ref" :> "a")>>)
          @@ ("ratings" :> <<[severity |-> "HIGH", score |-> "8"]>>),
      ("id" :> "CVE-1") @@ ("affects" :> <<("ref" :> "a"), ("ref" :> "a")>>),
      ("id" :> "CVE-1") @@ ("affects" :> <<("ref" :> "a"), ("ref" :> "b")>>),
      ("id" :> "CVE-1")
          @@ ("affects" :> <<("bom-ref" :> "b"), ("ref" :> None), ("ref" :> "a")>>),
      ("name" :> "CVE-1") @@ ("affects" :> <<("ref" :> "a")>>)
          @@ ("source" :> [name |-> "grype"])
          @@ ("ratings" :> <<[severity |-> "LOW", score |-> "2"],
                             [severity |-> "HIGH", score |-> "8"],
                             [severity |-> "CRITICAL", score |-> "8"]>>),
      ("id" :> "CVE-2") @@ ("ratings" :> <<[severity |-> "LOW"], [score |-> None]>>),
      ("id" :> "CVE-3")
          @@ ("ratings" :> <<[severity |-> "LOW"], [severity |-> "HIGH", score |-> "0"]>>),
      ("id" :> "CVE-3") @@ ("affects" :> <<("ref" :> "b")>>)
          @@ ("ratings" :> <<[severity |-> "INFO", score |-> "-1"], [severity |-> "LOW"]>>),
      ("id" :> "CVE-4") @@ ("ratings" :> <<[severity |-> "LOW", score |-> None]>>) }

AtMostOne(S) == {<<>>} \cup {<<x>> : x \in S}

SbomFilePool ==
    {MissingFile, ArrayFile, ObjectFile(<<>>)}
    \cup {ObjectFile([components |-> cs, vulnerabilities |-> vs]) :
            cs \in AtMostOne(RawComponentPool), vs \in AtMostOne(RawVulnerabilityPool)}

InitImport ==
    /\ pc = "call"
    /\ MergeIdle
    /\ RequirementsIdle
    /\ ValidateIdle
    /\ GenerateIdle
    /\ import_sbom \in SeqsUpTo(SbomFilePool, MaxSboms)
    /\ import_out = NotCalled

ImportCyclonedxSbom ==
    /\ pc = "call"
    /\ import_out' = import_cyclonedx_sbom(import_sbom)
    /\ pc' = "done"
    /\ UNCHANGED <<import_sbom, mergeVars, requirementsVars, validateVars, generateVars>>

NextImport == ImportCyclonedxSbom

SpecImport == InitImport /\ [][NextImport]_vars

----------------------------------------------------------------------------
(* Properties of import_cyclonedx_sbom *)

ImportReturned == pc = "done" /\ import_sbom # <<>> /\ import_out.exc = ""

SetOf(seq) == {seq[i] : i \in 1..Len(seq)}

RECURSIVE Flatten(_)
Flatten(ss) == IF ss = <<>> THEN <<>> ELSE Head(ss) \o Flatten(Tail(ss))

\* The component records read from the imported documents, in document order.
ReadComponents ==
    Flatten([i \in 1..Len(import_sbom) |-> load_one(import_sbom[i]).value.components])

\* The vulnerability records read from the imported documents, in document
\* order.
ReadVulnerabilities ==
    Flatten([i \in 1..Len(import_sbom) |-> load_one(import_sbom[i]).value.vulns])

SameIdAndAffectedSet(u, v) ==
    u["id"] = v["id"] /\ SetOf(u["affects"]) = SetOf(v["affects"])

\* C2 (as claimed): the returned vulnerability list holds no two entries
\* with equal id and with affects lists equal as sets, and every entry read
\* is represented by an entry with its id and its affected set.
C2_NoTwoWithSameIdAndAffectedSet ==
    ImportReturned =>
        LET out == import_out.value.vulnerabilities IN
        /\ \A i, j \in 1..Len(out) : SameIdAndAffectedSet(out[i], out[j]) => i = j
        /\ \A u \in SetOf(ReadVulnerabilities) :
              \E k \in 1..Len(out) : SameIdAndAffectedSet(out[k], u)

\* The first record of list cs that is Same as c.
FirstSame(Same(_, _), cs, c) ==
    cs[CHOOSE i \in 1..Len(cs) :
          /\ Same(cs[i], c)
          /\ \A j \in 1..(i - 1) : ~Same(cs[j], c)]

\* out holds, in the order of cs, the first record of every class of Same.
IsFirstOccurrences(Same(_, _), out, cs) ==
    /\ \A i, j \in 1..Len(out) : Same(out[i], out[j]) => i = j
    /\ \A k \in 1..Len(out) :
          /\ \E i \in 1..Len(cs) : Same(cs[i], out[k])
          /\ out[k] = FirstSame(Same, cs, out[k])
    /\ \A i \in 1..Len(cs) : \E k \in 1..Len(out) : Same(out[k], cs[i])
    /\ \A k, l \in 1..Len(out) :
          k < l => \E i, j \in 1..Len(cs) : i < j /\ cs[i] = out[k] /\ cs[j] = out[l]

SameNameVersionType(a, b) ==
    a["name"] = b["name"] /\ a["version"] = b["version"] /\ a["type"] = b["type"]

C7_SelfMergeIdempotent ==
    ImportReturned =>
        LET S == import_out.value.components
            m == merge_components(S, S, FALSE)
        IN /\ m.exc = ""
           /\ SetOf(m.value) = SetOf(S)
           /\ Len(m.value) = Len(S)

----------------------------------------------------------------------------
(* parse_requirements *)

\* A line of text is a sequence of one-character strings.
IsSpace(ch) == ch \in {" ", "\t", "\n"}

\* [A-Za-z0-9_.\-]
IsTokenChar(ch) == ch \in {"n", "u", "m", "p", "y", "1", ".", "-", "_"}

RECURSIVE LStrip(_)
LStrip(line) ==
    IF line # <<>> /\ IsSpace(Head(line)) THEN LStrip(Tail(line)) ELSE line

RECURSIVE RStrip(_)
RStrip(line) ==
    IF line # <<>> /\ IsSpace(line[Len(line)])
    THEN RStrip(SubSeq(line, 1, Len(line) - 1))
    ELSE line

\* A strip that removes trailing whitespace only.
StripTrailingOnly(line) == RStrip(line)

\* line.strip()
Strip(line) == LStrip(RStrip(line))

RECURSIVE SkipSpaces(_, _)
\* \s* from position i: the position of the first character it leaves.
SkipSpaces(line, i) ==
    IF i <= Len(line) /\ IsSpace(line[i]) THEN SkipSpaces(line, i + 1) ELSE i

RECURSIVE SkipToken(_, _)
\* [A-Za-z0-9_.\-]* from position i.
SkipToken(line, i) ==
    IF i <= Len(line) /\ IsTokenChar(line[i]) THEN SkipToken(line, i + 1) ELSE i

\* pat.match(line): the regex scans spaces, a name, spaces, "==", spaces, a
\* version, spaces and the end; the character classes are disjoint, so the
\* greedy scan is the only way to match.
PatMatch(line) ==
    LET n1 == SkipSpaces(line, 1)
        n2 == SkipToken(line, n1)
        e1 == SkipSpaces(line, n2)
        v1 == SkipSpaces(line, e1 + 2)
        v2 == SkipToken(line, v1)
        end == SkipSpaces(line, v2)
    IN IF /\ n2 > n1
          /\ e1 + 1 <= Len(line)
          /\ line[e1] = "="
          /\ line[e1 + 1] = "="
          /\ v2 > v1
          /\ end = Len(line) + 1
       THEN [matched |-> TRUE,
             group1 |-> SubSeq(line, n1, n2 - 1),
             group2 |-> SubSeq(line, v1, v2 - 1)]
       ELSE [matched |-> FALSE, group1 |-> <<>>, group2 |-> <<>>]

\* The body of the loop over the lines of the file.
ParseLine(acc, raw) ==
    LET line == Strip(raw)
        m == PatMatch(line)
    IN IF line = <<>> \/ Head(line) = "#" THEN acc
       ELSE IF m.matched
       THEN Append(acc, [name |-> m.group1, version |-> m.group2, type |-> "python"])
       ELSE Append(acc, [name |-> line, version |-> <<>>, type |-> "python"])

RECURSIVE ParseLines(_, _)
\* for line in f: ...
ParseLines(acc, lines) ==
    IF lines = <<>> THEN acc
    ELSE ParseLines(ParseLine(acc, Head(lines)), Tail(lines))

\* parse_requirements(p); a name or version is a sequence of characters and
\* the empty string is <<>>.
parse_requirements(p) ==
    IF ~p.given THEN Return(<<>>)
    ELSE IF ~p.exists THEN Raise("FileNotFoundError")
    ELSE Return(ParseLines(<<>>, p.lines))

----------------------------------------------------------------------------
(* Inputs of parse_requirements *)

MaxLines == 2

MissingPath == [given |-> TRUE, exists |-> FALSE]
TextFile(lines) == [given |-> TRUE, exists |-> TRUE, lines |-> lines]

ShortLineChars == {" ", "#", "n", "="}

\* Every line of at most two characters, and longer lines around "==".
LinePool ==
    {<<>>}
    \cup {<<a>> : a \in ShortLineChars}
    \cup {<<a, b>> : a, b \in ShortLineChars}
    \cup { <<"n", "=", "=", "1">>,
           <<" ", "n", "=", "=", "1", "\n">>,
           <<"n", "p", " ", "=", "=", "\t", "1", ".", "1">>,
           <<"n", "=", "=", "1", " ", "#">>,
           <<"n", "=", "=", " ">>,
           <<"=", "=", "1">>,
           <<"n", "=", "1">>,
           <<"n", ">", "=", "1">>,
           <<"n", " ", "p", "=", "=", "1">>,
           <<"n", "=", "=", "1", "=", "=", "1">>,
           <<"\t", "#", "n", "=", "=", "1">>,
           <<" ", "n", "p", "\n">> }

InitRequirements ==
    /\ pc = "call"
    /\ MergeIdle
    /\ ImportIdle
    /\ ValidateIdle
    /\ GenerateIdle
    /\ requirements \in {NoPath, MissingPath}
                          \cup {TextFile(ls) : ls \in SeqsUpTo(LinePool, MaxLines)}
    /\ deps = NotCalled

ParseRequirements ==
    /\ pc = "call"
    /\ deps' = parse_requirements(requirements)
    /\ pc' = "done"
    /\ UNCHANGED <<requirements, mergeVars, importVars, validateVars, generateVars>>

NextRequirements == ParseRequirements

SpecRequirements == InitRequirements /\ [][NextRequirements]_vars

----------------------------------------------------------------------------
(* Properties of parse_requirements *)

ParsedFile == pc = "done" /\ requirements.given /\ requirements.exists

AllSpaces(t) == \A i \in 1..Len(t) : IsSpace(t[i])
IsToken(t) == t # <<>> /\ \A i \in 1..Len(t) : IsTokenChar(t[i])

RECURSIVE ComponentsPerLine(_, _)
\* The components of the lines, one after the other, when line l gives the
\* components PerLine(l).
ComponentsPerLine(PerLine(_), lines) ==
    IF lines = <<>> THEN <<>>
    ELSE PerLine(Head(lines)) \o ComponentsPerLine(PerLine, Tail(lines))

\* The line is name==version, nothing else.
LiteralPins(line) ==
    {pin \in (1..Len(line)) \X (1..Len(line)) :
        /\ pin[1] + 3 = pin[2]
        /\ IsToken(SubSeq(line, 1, pin[1]))
        /\ line[pin[1] + 1] = "="
        /\ line[pin[1] + 2] = "="
        /\ IsToken(SubSeq(line, pin[2], Len(line)))}

\* What the claim lets a line give, the line taken literally.
ClaimedOfLine(line) ==
    IF AllSpaces(line) \/ Head(line) = "#" THEN <<>>
    ELSE IF LiteralPins(line) # {}
    THEN LET pin == CHOOSE q \in LiteralPins(line) : TRUE
         IN <<[name |-> SubSeq(line, 1, pin[1]),
               version |-> SubSeq(line, pin[2], Len(line)),
               type |-> "python"]>>
    ELSE <<[name |-> line, version |-> <<>>, type |-> "python"]>>

\* C8 (as claimed): one component per line that is neither blank nor begins
\* with '#', in line order; a line name==version gives that name and
\* version, any other line gives the literal line text as name and an empty
\* version; the type is "python" and reading an existing file never fails.
C8_OnePerLineLiteral ==
    ParsedFile =>
        /\ deps.exc = ""
        /\ deps.value = ComponentsPerLine(ClaimedOfLine, requirements.lines)

\* The line without its leading and trailing whitespace.
Trimmed(line) ==
    LET inked == {i \in 1..Len(line) : ~IsSpace(line[i])} IN
    IF inked = {} THEN <<>>
    ELSE SubSeq(line,
                CHOOSE i \in inked : \A j \in inked : i <= j,
                CHOOSE i \in inked : \A j \in inked : j <= i)

\* t is a name, optional whitespace, "==", optional whitespace, a version:
\* the name ends at pin[1], "==" starts at pin[2], the version starts at
\* pin[3].
SpacedPins(t) ==
    {pin \in (1..Len(t)) \X (1..Len(t)) \X (1..Len(t)) :
        /\ pin[1] < pin[2]
        /\ pin[2] + 1 < pin[3]
        /\ IsToken(SubSeq(t, 1, pin[1]))
        /\ AllSpaces(SubSeq(t, pin[1] + 1, pin[2] - 1))
        /\ t[pin[2]] = "="
        /\ t[pin[2] + 1] = "="
        /\ AllSpaces(SubSeq(t, pin[2] + 2, pin[3] - 1))
        /\ IsToken(SubSeq(t, pin[3], Len(t)))}

\* What a line gives, after its surrounding whitespace is removed.
ExpectedOfLine(line) ==
    LET t == Trimmed(line) IN
    IF t = <<>> \/ Head(t) = "#" THEN <<>>
    ELSE IF SpacedPins(t) # {}
    THEN LET pin == CHOOSE q \in SpacedPins(t) : TRUE
         IN <<[name |-> SubSeq(t, 1, pin[1]),
               version |-> SubSeq(t, pin[3], Len(t)),
               type |-> "python"]>>
    ELSE <<[name |-> t, version |-> <<>>, type |-> "python"]>>

\* C8 (amended): one component per line that, with its leading and trailing
\* whitespace removed, is neither empty nor begins with '#', in line order
\* and without deduplication; such a line of the form name==version, with
\* optional whitespace around "==", gives that name and a non-empty version,
\* any other gives the trimmed line text as name and an empty version; the
\* type is "python" and reading an existing file never fails.
C8_OnePerTrimmedLine ==
    ParsedFile =>
        /\ deps.exc = ""
        /\ deps.value = ComponentsPerLine(ExpectedOfLine, requirements.lines)
        /\ \A k \in 1..Len(deps.value) :
              /\ deps.value[k].type = "python"
              /\ deps.value[k].name # <<>>

\* C8 witness: a line with whitespace around it gave a pinned component and
\* another gave a name-only component, and the two lines differ from what
\* they gave.
C8_Witness ==
    /\ ParsedFile
    /\ Len(requirements.lines) = 2
    /\ Len(deps.value) = 2
    /\ deps.value[1].version # <<>>
    /\ Len(requirements.lines[1]) > Len(deps.value[1].name) + Len(deps.value[1].version) + 2
    /\ deps.value[2].version = <<>>
    /\ deps.value[2].name # requirements.lines[2]

----------------------------------------------------------------------------
(* validate_aibom *)

\* A JSON value is [kind |-> ...]; an object also has obj, the dict of its
\* members, whose values are JSON values.
JsonObject(obj) == [kind |-> "object", obj |-> obj]

\* A validator that stops at the first failing check.
ValidateFirstErrorOnly(a) ==
    IF a.kind # "object"
    THEN Return([ok |-> FALSE, errors |-> <<"AIBOM must be a JSON object">>])
    ELSE LET md == Get(a.obj, "metadata", JsonNull)
             comps == Get(a.obj, "components", JsonNull)
         IN IF md.kind # "object"
            THEN Return([ok |-> FALSE, errors |-> <<"metadata missing or not an object">>])
            ELSE IF comps.kind # "array"
            THEN Return([ok |-> FALSE, errors |-> <<"components missing or not a list">>])
            ELSE Return([ok |-> TRUE, errors |-> <<>>])

\* validate_aibom(aibom)
validate_aibom(a) ==
    IF a.kind # "object"
    THEN Return([ok |-> FALSE, errors |-> <<"AIBOM must be a JSON object">>])
    ELSE LET md == Get(a.obj, "metadata", JsonNull)
             comps == Get(a.obj, "components", JsonNull)
             errors1 == IF md.kind # "object"
                        THEN <<"metadata missing or not an object">> ELSE <<>>
             errors2 == IF comps.kind # "array"
                        THEN Append(errors1, "components missing or not a list")
                        ELSE errors1
         IN Return([ok |-> Len(errors2) = 0, errors |-> errors2])

JsonKinds == {"null", "boolean", "number", "string", "array", "object"}

JsonMembers == {[kind |-> k] : k \in JsonKinds \ {"object"}} \cup {JsonObject(<<>>)}

\* The objects with any of the members metadata, components and
\* vulnerabilities, each of any kind.
JsonRoots ==
    {[kind |-> k] : k \in JsonKinds \ {"object"}}
    \cup {JsonObject([key \in keys |-> member[key]]) :
            keys \in SUBSET {"metadata", "components", "vulnerabilities"},
            member \in [{"metadata", "components", "vulnerabilities"} -> JsonMembers]}

InitValidate ==
    /\ pc = "call"
    /\ MergeIdle
    /\ ImportIdle
    /\ RequirementsIdle
    /\ GenerateIdle
    /\ aibom \in JsonRoots
    /\ validation = NotCalled

ValidateAibom ==
    /\ pc = "call"
    /\ validation' = validate_aibom(aibom)
    /\ pc' = "done"
    /\ UNCHANGED <<aibom, mergeVars, importVars, requirementsVars, generateVars>>

NextValidate == ValidateAibom

SpecValidate == InitValidate /\ [][NextValidate]_vars

----------------------------------------------------------------------------
(* Properties of validate_aibom *)

IsObjectMember(a, key) ==
    a.kind = "object" /\ key \in DOMAIN a.obj /\ a.obj[key].kind = "object"

IsArrayMember(a, key) ==
    a.kind = "object" /\ key \in DOMAIN a.obj /\ a.obj[key].kind = "array"

\* C9: validate_aibom returns for every JSON value; ok holds exactly when
\* there is no error; a root that is no object gives the one error "AIBOM
\* must be a JSON object"; for an object each of the two checks (metadata is
\* an object, components is an array) adds one error when it fails,
\* whatever the other does.
C9_ValidateTotalAndIndependent ==
    pc = "done" =>
        /\ validation.exc = ""
        /\ validation.value.ok <=> validation.value.errors = <<>>
        /\ aibom.kind # "object" =>
              validation.value = [ok |-> FALSE, errors |-> <<"AIBOM must be a JSON object">>]
        /\ aibom.kind = "object" =>
              /\ Len(validation.value.errors) =
                    (IF IsObjectMember(aibom, "metadata") THEN 0 ELSE 1)
                    + (IF IsArrayMember(aibom, "components") THEN 0 ELSE 1)
              /\ validation.value.ok <=>
                    (IsObjectMember(aibom, "metadata") /\ IsArrayMember(aibom, "components"))

\* C9 witness: an object whose metadata and components both fail their
\* check was validated and got two errors.
C9_Witness ==
    /\ pc = "done"
    /\ aibom.kind = "object"
    /\ ~IsObjectMember(aibom, "metadata")
    /\ ~IsArrayMember(aibom, "components")
    /\ Len(validation.value.errors) = 2

----------------------------------------------------------------------------
(* generate_aibom, write_json and cmd_generate *)

\* A manifest reader that treats a missing or malformed manifest as empty.
LoadSystemManifestLenient(p) ==
    IF ~p.given \/ ~p.exists \/ p.kind # "object" THEN Return(<<>>) ELSE Return(p.obj)

\* load_system_manifest(p)
load_system_manifest(p) ==
    IF ~p.given THEN Return(<<>>)
    ELSE IF ~p.exists THEN Raise("FileNotFoundError")
    ELSE IF p.kind # "object" THEN Raise("ValueError")
    ELSE Return(p.obj)

\* The str that a sequence of characters read from the requirements file is.
Text(chars) ==
    CASE chars = <<>> -> ""
      [] chars = <<"1">> -> "1"
      [] chars = <<"n", "u", "m", "p", "y">> -> "numpy"

\* A model component without the placeholder for an empty identifier.
ModelComponentNoPlaceholder(model_id) ==
    [name |-> model_id, type |-> "ai-model", source |-> "huggingface"]

\* model_component
ModelComponent(model_id) ==
    [name |-> IF model_id = "" THEN "<unknown-model>" ELSE model_id,
     type |-> "ai-model",
     source |-> "huggingface"]

\* runtime_components
RuntimeComponents(reqs) ==
    [i \in 1..Len(reqs) |->
        [name |-> Text(reqs[i].name), version |-> Text(reqs[i].version),
         type |-> "python", source |-> "requirements"]]

RECURSIVE SystemComponentsOf(_)
\* for comp in ...: if isinstance(comp, dict): system_components.append(...)
SystemComponentsOf(items) ==
    IF items = <<>> THEN <<>>
    ELSE IF Head(items).kind # "object" THEN SystemComponentsOf(Tail(items))
    ELSE <<[name |-> Get(Head(items).obj, "name", None),
            version |-> Get(Head(items).obj, "version", ""),
            type |-> Get(Head(items).obj, "type", "os"),
            source |-> "system-manifest"]>> \o SystemComponentsOf(Tail(items))

\* The loop over system.get("system_components") or []: null and a missing
\* key give no component, a (nonzero) number cannot be iterated.
SystemComponents(system) ==
    LET sc == Get(system, "system_components", JsonNull) IN
    IF sc.kind = "array" THEN Return(SystemComponentsOf(sc.items))
    ELSE IF sc.kind = "number" THEN Raise("TypeError")
    ELSE Return(<<>>)

\* A document assembly that attaches the vulnerabilities field to every
\* document.
AssembleAlwaysVulnerabilities(opts, system, merged_components, imported_vulns, now) ==
    [metadata |-> [tool |-> "aibom-cra",
                   version |-> "0.1.0",
                   generated |-> now,
                   format |-> opts.fmt,
                   artifact_id |-> Get(system, "artifact_id", None),
                   producer |-> Get(system, "producer", None),
                   model_id |-> opts.model_id,
                   offline |-> opts.offline],
     components |-> merged_components,
     vulnerabilities |-> imported_vulns]

\* The document assembled at the end of generate_aibom.
Assemble(opts, system, merged_components, imported_vulns, now) ==
    LET doc == [metadata |-> [tool |-> "aibom-cra",
                              version |-> "0.1.0",
                              generated |-> now,
                              format |-> opts.fmt,
                              artifact_id |-> Get(system, "artifact_id", None),
                              producer |-> Get(system, "producer", None),
                              model_id |-> opts.model_id,
                              offline |-> opts.offline],
                components |-> merged_components]
    IN IF imported_vulns # <<>>
       THEN doc @@ ("vulnerabilities" :> imported_vulns)
       ELSE doc

\* generate_aibom(options), with the value _now_iso() returns.
generate_aibom(opts, now) ==
    LET system == load_system_manifest(opts.system_manifest)
        reqs == parse_requirements(opts.requirements)
        imp == import_cyclonedx_sbom(opts.import_sbom)
        system_components == SystemComponents(system.value)
        merged_components ==
            merge_components(<<ModelComponent(opts.model_id)>>
                                 \o RuntimeComponents(reqs.value)
                                 \o system_components.value,
                             imp.value.components,
                             opts.prefer_imported)
    IN IF system.exc # "" THEN system
       ELSE IF reqs.exc # "" THEN reqs
       ELSE IF imp.exc # "" THEN imp
       ELSE IF system_components.exc # "" THEN system_components
       ELSE IF merged_components.exc # "" THEN merged_components
       ELSE Return(Assemble(opts, system.value, merged_components.value,
                            imp.value.vulnerabilities, now))

\* write_json(data, out_path): the file at out_path afterwards.
write_json(data) == [exists |-> TRUE, json |-> data]

----------------------------------------------------------------------------
(* Inputs of cmd_generate *)

ManifestFile(obj) == [given |-> TRUE, exists |-> TRUE, kind |-> "object", obj |-> obj]
ArrayManifest == [given |-> TRUE, exists |-> TRUE, kind |-> "array"]
JsonArray(items) == [kind |-> "array", items |-> items]

ManifestPool ==
    { NoPath, MissingPath, ArrayManifest,
      ManifestFile(<<>>),
      ManifestFile([artifact_id |-> "a", producer |-> "p",
                    system_components |->
                        JsonArray(<<JsonObject([name |-> "ubuntu", version |-> "2"]),
                                    [kind |-> "string"],
                                    JsonObject([name |-> "org/model", version |-> "1",
                                                type |-> "ai-model"])>>)]),
      ManifestFile([system_components |->
                        JsonArray(<<JsonObject([name |-> "ubuntu"]),
                                    JsonObject([version |-> "1"])>>)]),
      ManifestFile([system_components |-> [kind |-> "number"]]) }

GenerateLinePool ==
    { <<"n", "u", "m", "p", "y", "=", "=", "1">>,
      <<" ", "n", "u", "m", "p", "y", "\n">> }

GenerateSbomPool ==
    { MissingFile,
      ObjectFile([components |->
                      <<[name |-> "numpy", version |-> "1", type |-> "library"]>>,
                  vulnerabilities |->
                      <<[id |-> "CVE-1", affects |-> <<[ref |-> "a"]>>]>>]),
      ObjectFile([components |->
                      <<[name |-> "numpy", version |-> "2", type |-> "python",
                         purl |-> "p"]>>,
                  vulnerabilities |->
                      <<[id |-> "CVE-2", affects |-> <<[ref |-> "b"]>>,
                         ratings |-> <<[severity |-> "HIGH", score |-> "8"]>>]>>]),
      ObjectFile([components |->
                      <<[name |-> "org/model", version |-> "2", type |-> "ai-model"]>>]),
      ObjectFile([components |-> <<[type |-> "python"]>>]) }

Timestamps == {"2026-01-01T00:00:00+00:00", "2026-01-02T00:00:00+00:00"}

\* A file left at the output path by something else.
StaleFile == [exists |-> TRUE, json |-> [stale |-> TRUE]]

Init ==
    /\ pc = "call"
    /\ MergeIdle
    /\ ImportIdle
    /\ RequirementsIdle
    /\ ValidateIdle
    /\ options \in
          [model_id : {"org/model", ""},
           system_manifest : ManifestPool,
           requirements : {NoPath, MissingPath}
               \cup {TextFile(ls) : ls \in SeqsUpTo(GenerateLinePool, MaxLines)},
           import_sbom : SeqsUpTo(GenerateSbomPool, MaxSboms),
           fmt : {"cyclonedx"},
           offline : {FALSE},
           prefer_imported : BOOLEAN]
    /\ out_file \in {MissingFile, StaleFile}
    /\ exit = NotCalled

\* cmd_generate(args): an exception of generate_aibom leaves the function
\* before write_json; the return code 0 is the value <<0>>.
CmdGenerate ==
    /\ pc = "call"
    /\ \E now \in Timestamps :
          LET doc == generate_aibom(options, now) IN
          IF doc.exc # ""
          THEN /\ exit' = Raise(doc.exc)
               /\ out_file' = out_file
          ELSE /\ exit' = Return(<<0>>)
               /\ out_file' = write_json(doc.value)
    /\ pc' = "done"
    /\ UNCHANGED <<options, mergeVars, importVars, requirementsVars, validateVars>>

Next == CmdGenerate

Spec == Init /\ [][Next]_vars

----------------------------------------------------------------------------
(* Properties of cmd_generate *)

\* A reader fails: the manifest, the requirements file or an SBOM does not
\* exist, or the manifest's JSON value is not an object.
AnyReaderFails ==
    \/ options.system_manifest.given
          /\ (~options.system_manifest.exists \/ options.system_manifest.kind # "object")
    \/ options.requirements.given /\ ~options.requirements.exists
    \/ \E i \in 1..Len(options.import_sbom) : ~options.import_sbom[i].exists

\* The file holds a complete document of this run.
IsCompleteDocument(file) ==
    /\ file.exists
    /\ {"metadata", "components"} \subseteq DOMAIN file.json
    /\ file.json["metadata"].model_id = options.model_id
    /\ file.json["metadata"].generated \in Timestamps
    /\ \E k \in 1..Len(file.json["components"]) :
          file.json["components"][k]["type"] = "ai-model"

\* C10: a generate run in which a reader fails ends with an exception and
\* leaves the output file as it was; the output file changes only in a run
\* in which no reader fails, and then to a complete document.
C10_NoPartialResult ==
    [][ /\ AnyReaderFails => (exit'.exc # "" /\ out_file' = out_file)
        /\ out_file' # out_file =>
              (~AnyReaderFails /\ exit'.exc = "" /\ IsCompleteDocument(out_file')) ]_vars

\* C10 witness: the run ended with an SBOM not found, after the manifest and
\* the requirements had been read, and the stale output file is still there.
C10_Witness ==
    /\ pc = "done"
    /\ exit.exc = "FileNotFoundError"
    /\ options.system_manifest.given
    /\ options.requirements.given
    /\ options.requirements.exists
    /\ Len(options.import_sbom) = 2
    /\ options.import_sbom[1].exists
    /\ ~options.import_sbom[2].exists
    /\ out_file = StaleFile

\* The three readers of generate_aibom all returned normally.
ReadersReturned ==
    /\ load_system_manifest(options.system_manifest).exc = ""
    /\ parse_requirements(options.requirements).exc = ""
    /\ import_cyclonedx_sbom(options.import_sbom).exc = ""

\* C11: generate_aibom fails only if a reader failed: a run in which the
\* manifest, the requirements and the SBOMs were all read normally ends
\* without an exception, whatever the records the readers returned.
C11_FailsOnlyIfReaderFailed ==
    (pc = "done" /\ ReadersReturned) => exit.exc = ""

\* The run ended normally: generate_aibom returned and the document was
\* written.
GenerateReturned == pc = "done" /\ exit.exc = ""

\* The deduplicated vulnerability list the SBOM reader returned to this run.
ImportedVulns == import_cyclonedx_sbom(options.import_sbom).value.vulnerabilities

\* C12: the written document has a vulnerabilities field exactly when the
\* imported vulnerability list is not empty, and the field is then that
\* list itself, entry for entry and in the same order (never an empty
\* array, and no entry dropped for naming a component that is not in the
\* merged list).
C12_VulnerabilitiesVerbatim ==
    GenerateReturned =>
        /\ ("vulnerabilities" \in DOMAIN out_file.json) <=> (ImportedVulns # <<>>)
        /\ "vulnerabilities" \in DOMAIN out_file.json =>
              out_file.json["vulnerabilities"] = ImportedVulns

\* C12 witness: a document was written with two vulnerabilities in the order
\* of the SBOMs, the first affecting a reference that no component of the
\* document carries.
C12_Witness ==
    /\ GenerateReturned
    /\ "vulnerabilities" \in DOMAIN out_file.json
    /\ Len(out_file.json["vulnerabilities"]) = 2
    /\ out_file.json["vulnerabilities"][1].id = "CVE-1"
    /\ out_file.json["vulnerabilities"][2].id = "CVE-2"
    /\ out_file.json["vulnerabilities"][1].affects = <<"a">>
    /\ \A k \in 1..Len(out_file.json["components"]) :
          Get(out_file.json["components"][k], "bom_ref", None) # "a"

\* The name the model component is to carry.
RequestedModelName ==
    IF options.model_id = "" THEN "<unknown-model>" ELSE options.model_id

\* C13: every document a successful run writes has, among its components,
\* one of type "ai-model" named after the requested model identifier, or
\* "<unknown-model>" when the identifier is empty, whatever the requirements,
\* the manifest, the SBOMs and prefer_imported were.
C13_ModelComponentPresent ==
    GenerateReturned =>
        \E k \in 1..Len(out_file.json["components"]) :
            /\ NameOf(out_file.json["components"][k]) = RequestedModelName
            /\ TypeOf(out_file.json["components"][k]) = "ai-model"

\* C13 witness: with prefer_imported, an imported record of the model's own
\* name and type overwrote the fields of the model component, and the
\* document still lists the model.
C13_Witness ==
    /\ GenerateReturned
    /\ options.prefer_imported
    /\ options.model_id = "org/model"
    /\ \E k \in 1..Len(out_file.json["components"]) :
          /\ NameOf(out_file.json["components"][k]) = "org/model"
          /\ TypeOf(out_file.json["components"][k]) = "ai-model"
          /\ out_file.json["components"][k]["source"] = "cyclonedx"

----------------------------------------------------------------------------
(* Properties of the rating selection in import_cyclonedx_sbom *)

\* The vulnerability entries of the imported documents as they stand in the
\* files, in document order.
RawVulnerabilities ==
    Flatten([i \in 1..Len(import_sbom) |->
                Get(import_sbom[i].obj, "vulnerabilities", <<>>)])

\* The score a rating counts with: its score, or 0 when it has none.
RatingScore(r) == IF "score" \in DOMAIN r THEN NumValue(r["score"]) ELSE 0

\* The rating with the highest score, the earliest of them when several
\* share it; no rating (the empty record) when there is none.
ClaimedRating(ratings) ==
    IF ratings = <<>> THEN <<>>
    ELSE ratings[CHOOSE i \in 1..Len(ratings) :
                    \A j \in 1..Len(ratings) :
                        /\ j < i => RatingScore(ratings[j]) < RatingScore(ratings[i])
                        /\ j > i => RatingScore(ratings[j]) <= RatingScore(ratings[i])]

\* The entry a file's vulnerability is emitted as, with the severity and the
\* score of its claimed rating (null for both when it has no rating).
ClaimedEntry(v) == NormaliseVulnerability(v, ClaimedRating(Get(v, "ratings", <<>>)))

\* C14: every vulnerability the import returns is an entry of the files
\* with the severity and the score of its rating of highest score, a rating
\* without a score counting as 0 and the earliest rating winning a tie, and
\* with null severity and score when it has no ratings; every entry of the
\* files is returned so, unless an earlier entry has its id and affected set.
C14_HighestRatingEmitted ==
    ImportReturned =>
        LET out == import_out.value.vulnerabilities
            raw == RawVulnerabilities
        IN /\ \A k \in 1..Len(out) : \E i \in 1..Len(raw) : out[k] = ClaimedEntry(raw[i])
           /\ \A i \in 1..Len(raw) :
                 \/ ClaimedEntry(raw[i]) \in SetOf(out)
                 \/ \E j \in 1..(i - 1) :
                       SameIdAndAffectedSet(ClaimedEntry(raw[j]), ClaimedEntry(raw[i]))

\* C14 witness: the import returned an entry that has three ratings in its
\* file, the last two sharing the highest score, with the severity of the
\* second, and an entry whose first rating has no score and whose second
\* has score 0, with the severity of the first and no score.
C14_Witness ==
    /\ ImportReturned
    /\ \E i, j \in 1..Len(RawVulnerabilities) :
          LET u == RawVulnerabilities[i]
              v == RawVulnerabilities[j]
          IN /\ Len(Get(u, "ratings", <<>>)) = 3
             /\ \E k \in 1..Len(import_out.value.vulnerabilities) :
                   /\ import_out.value.vulnerabilities[k].source = "grype"
                   /\ import_out.value.vulnerabilities[k].severity = "HIGH"
                   /\ import_out.value.vulnerabilities[k].score = "8"
             /\ Get(v, "id", None) = "CVE-3"
             /\ Get(v, "affects", <<>>) = <<>>
             /\ \E k \in 1..Len(import_out.value.vulnerabilities) :
                   /\ import_out.value.vulnerabilities[k].id = "CVE-3"
                   /\ import_out.value.vulnerabilities[k].severity = "LOW"
                   /\ import_out.value.vulnerabilities[k].score = None

----------------------------------------------------------------------------
(* The identities _merge_components returns *)

IdentityOf(c) == <<NameOf(c), TypeOf(c)>>

IdentitiesOf(cs) == {IdentityOf(cs[i]) : i \in 1..Len(cs)}

\* C15: the merge neither loses nor invents a component: the identities
\* (name, type) of the records it returns are exactly the identities of the
\* primary records together with those of the imported records, whatever
\* prefer_imported is.
C15_NoComponentLostOrInvented ==
    MergeReturned =>
        IdentitiesOf(merged.value) = IdentitiesOf(primary) \cup IdentitiesOf(imported)

\* C15 witness: a merge returned for imported records of which one has the
\* identity of a primary record and another an identity no primary record
\* has, and the latter is among the returned records.
C15_Witness ==
    /\ MergeReturned
    /\ primary # <<>>
    /\ \E i, j \in 1..Len(imported) :
          /\ IdentityOf(imported[i]) \in IdentitiesOf(primary)
          /\ IdentityOf(imported[j]) \notin IdentitiesOf(primary)
          /\ imported[j] \in SetOf(merged.value)

====
